---- MODULE Spec2Model ----
(***************************************************************************)
(* The statistics reporter of espnet2 (espnet2/train/reporter.py) and the  *)
(* calls espnet2/train/trainer.py makes into it.                           *)
(*                                                                         *)
(* Python values are modelled as follows.                                  *)
(*   float       a reduced fraction <<n, d>> with d > 0; NaN is <<0, 0>>   *)
(*   Optional    <<>> for None, <<x>> for a value x                        *)
(*   dict        a sequence of [k, v] records with distinct keys, in       *)
(*               insertion order (the iteration order of a Python dict)    *)
(*   exceptions  the name of the exception class, "" when none is raised   *)
(***************************************************************************)
EXTENDS Integers, Sequences, FiniteSets, TLC

\* ------------------------------------------------------------------ bounds

\* Largest epoch number a caller passes.
MaxEpoch == 1
\* Number of caller variables that hold a SubReporter at the same time.
MaxSubs == 2
\* Number of SubReporter objects constructed in one run.
MaxMade == 3
\* Number of register calls made on one SubReporter.
MaxCalls == 1

\* ------------------------------------------------------------------ floats

NaN == <<0, 0>>
Inf == <<1, 0>>

isnan(x) == x = NaN

isfinite(x) == x[2] # 0

Abs(n) == IF n < 0 THEN -n ELSE n

Sign(n) == IF n < 0 THEN -1 ELSE IF n > 0 THEN 1 ELSE 0

RECURSIVE Gcd(_, _)
Gcd(a, b) == IF b = 0 THEN a ELSE Gcd(b, a % b)

\* The fraction n/d in lowest terms with a denominator that is not negative:
\* n/0 is an infinity with the sign of n, and 0/0 is NaN.
Frac(n, d) ==
    IF d = 0 THEN <<Sign(n), 0>>
    ELSE LET g == Gcd(Abs(n), Abs(d))
             s == IF d < 0 THEN -1 ELSE 1
         IN  <<(s * n) \div g, (s * d) \div g>>

FAdd(x, y) ==
    IF isnan(x) \/ isnan(y) THEN NaN
    ELSE IF ~isfinite(x) /\ ~isfinite(y) THEN (IF x = y THEN x ELSE NaN)
    ELSE Frac(x[1] * y[2] + y[1] * x[2], x[2] * y[2])

FMul(x, y) ==
    IF isnan(x) \/ isnan(y) THEN NaN ELSE Frac(x[1] * y[1], x[2] * y[2])

\* x / y of two floats; the callers test y against 0 first.
FDiv(x, y) ==
    IF isnan(x) \/ isnan(y) \/ y[1] = 0 THEN NaN
    ELSE Frac(x[1] * y[2] * Sign(y[1]), x[2] * Abs(y[1]))

FNeg(x) == <<-x[1], x[2]>>

\* x < y as Python compares floats: every comparison with NaN is false.
FLess(x, y) ==
    /\ ~isnan(x) /\ ~isnan(y)
    /\ IF ~isfinite(x) /\ ~isfinite(y) THEN x[1] < y[1]
       ELSE x[1] * y[2] < y[1] * x[2]

RECURSIVE FSum(_)
FSum(xs) == IF xs = <<>> THEN <<0, 1>> ELSE FAdd(Head(xs), FSum(Tail(xs)))

\* ------------------------------------------------------------------ dicts

None == <<>>

DictKeys(d) == {d[i].k : i \in 1..Len(d)}

DictHas(d, key) == \E i \in 1..Len(d) : d[i].k = key

DictGet(d, key) == d[CHOOSE i \in 1..Len(d) : d[i].k = key].v

\* d[key] = v: an existing key keeps its place, a new key goes last.
DictSet(d, key, v) ==
    IF DictHas(d, key)
    THEN [i \in 1..Len(d) |-> IF d[i].k = key THEN [k |-> key, v |-> v] ELSE d[i]]
    ELSE Append(d, [k |-> key, v |-> v])

\* d.pop(key, None)
DictPop(d, key) == SelectSeq(d, LAMBDA x : x.k # key)

\* ------------------------------------------------------------ ValueReducer

_reserved == {"time", "total_count"}

\* What a caller passes as a measurement or a weight.
Scalar(x) == [kind |-> "scalar", val |-> x]
\* A tensor or array of more than one element.
ArrayV == [kind |-> "array", val |-> NaN]

Average(v) == [type |-> "Average", value |-> v]
WeightedAverage(v, w) == [type |-> "WeightedAverage", value |-> v, weight |-> w]

\* to_reported_value(v, weight): v is a Scalar or ArrayV, weight is None or
\* <<w>> with w a Scalar or ArrayV.
to_reported_value(v, weight) ==
    IF v.kind = "array" THEN [err |-> "ValueError", val |-> Average(NaN)]
    ELSE IF weight # None /\ weight[1].kind = "array"
    THEN [err |-> "ValueError", val |-> Average(NaN)]
    ELSE IF weight # None
    THEN [err |-> "", val |-> WeightedAverage(v.val, weight[1].val)]
    ELSE [err |-> "", val |-> Average(v.val)]

\* A nanmean that divides by the number of all values.
nanmean_CountAll(xs) ==
    LET kept == SelectSeq(xs, LAMBDA x : ~isnan(x))
    IN  IF kept = <<>> THEN NaN ELSE FDiv(FSum(kept), <<Len(xs), 1>>)

nanmean(xs) ==
    LET kept == SelectSeq(xs, LAMBDA x : ~isnan(x))
    IN  IF kept = <<>> THEN NaN ELSE FDiv(FSum(kept), <<Len(kept), 1>>)

\* An aggregate that looks at the value alone.
AggregateValid_ValueOnly(v) == isfinite(v.value)

\* not (not np.isfinite(v.value) or not np.isfinite(v.weight))
AggregateValid(v) == isfinite(v.value) /\ isfinite(v.weight)

\* aggregate(values): [err, val, warn].
aggregate(values) ==
    IF \E i \in 1..Len(values) : values[i].type # values[1].type
    THEN [err |-> "ValueError", val |-> NaN, warn |-> ""]
    ELSE IF Len(values) = 0
    THEN [err |-> "", val |-> NaN, warn |-> "No stats found"]
    ELSE IF values[1].type = "Average"
    THEN [err |-> "", val |-> nanmean([i \in 1..Len(values) |-> values[i].value]), warn |-> ""]
    ELSE LET valid == SelectSeq(values, AggregateValid)
             sum_weights == FSum([i \in 1..Len(valid) |-> valid[i].weight])
             sum_value == FSum([i \in 1..Len(valid) |->
                                     FMul(valid[i].value, valid[i].weight)])
         IN  IF Len(valid) = 0
             THEN [err |-> "", val |-> NaN, warn |-> "No valid stats found"]
             ELSE IF sum_weights[1] = 0
             THEN [err |-> "", val |-> NaN, warn |-> "weight is zero"]
             ELSE [err |-> "", val |-> FDiv(sum_value, sum_weights), warn |-> ""]

\* ------------------------------------------------------------------- state

\* The Reporter objects: the one the training run uses and a second one a
\* resumed run constructs before it loads a checkpoint.
Reporters == {"orig", "fresh"}

\* The stream names (key) and the statistic names (key2) callers use.
Streams == {"train", "eval"}
UserKeys == {"loss", "acc"}

VARIABLES
    reporters,  \* reporter -> [live, epoch, stats]; stats refers to a table of heap
    heap,       \* reference -> the defaultdict(dict) epoch -> key -> key2 -> value
    subs,       \* caller variable -> the SubReporter it holds
    obs,        \* caller variable -> where the observe() scope that bound it is
    hist,       \* caller variable -> seed of its SubReporter and the calls made on it
    made,       \* number of SubReporter objects constructed so far
    total,      \* stream name -> counted register calls made on its SubReporters
    blob,       \* None or <<the dict state_dict() last returned>>
    taken,      \* None or <<the Reporter's epoch and table when blob was returned>>
    last        \* the last call: its operation, arguments and outcome

vars == <<reporters, heap, subs, obs, hist, made, total, blob, taken, last>>

Slots == 1..MaxSubs

\* The outcome of a call.
Call(op, err, rep, slot, args, ret) ==
    [op |-> op, err |-> err, rep |-> rep, slot |-> slot, args |-> args, ret |-> ret]

\* Reporter.stats of reporter r, read through the reference.
StatsOf(r) == heap[reporters[r].stats]

\* Reporter.__init__(epoch): the table is a fresh defaultdict(dict).
Reporter(r, epoch) == [live |-> TRUE, epoch |-> epoch, stats |-> r]

\* SubReporter.__init__(key, epoch, total_count)
SubReporter(key, epoch, total_count) ==
    [key |-> key, epoch |-> epoch, total_count |-> total_count,
     stats |-> <<>>, finished |-> FALSE]

Init ==
    /\ reporters = [r \in Reporters |->
                      IF r = "orig" THEN Reporter(r, 0)
                      ELSE [live |-> FALSE, epoch |-> 0, stats |-> r]]
    /\ heap = [r \in Reporters |-> <<>>]
    /\ subs = <<>>
    /\ obs = <<>>
    /\ hist = <<>>
    /\ made = 0
    /\ total = [key \in Streams |-> 0]
    /\ blob = None
    /\ taken = None
    /\ last = Call("__init__", "", "orig", 0, <<0>>, None)

\* --------------------------------------------------------------- Reporter

\* A Reporter that takes any epoch.
EpochInvalid_Never(epoch) == FALSE

\* if epoch < 0
EpochInvalid(epoch) == epoch < 0

\* Reporter(epoch) for the second reporter.
Construct(r, epoch) ==
    /\ ~reporters[r].live
    /\ IF EpochInvalid(epoch)
       THEN /\ last' = Call("__init__", "ValueError", r, 0, <<epoch>>, None)
            /\ UNCHANGED <<reporters, heap>>
       ELSE /\ reporters' = [reporters EXCEPT ![r] = Reporter(r, epoch)]
            /\ heap' = [heap EXCEPT ![r] = <<>>]
            /\ last' = Call("__init__", "", r, 0, <<epoch>>, None)
    /\ UNCHANGED <<subs, obs, hist, made, total, blob, taken>>

set_epoch(r, epoch) ==
    /\ reporters[r].live
    /\ IF EpochInvalid(epoch)
       THEN /\ last' = Call("set_epoch", "ValueError", r, 0, <<epoch>>, None)
            /\ UNCHANGED reporters
       ELSE /\ reporters' = [reporters EXCEPT ![r].epoch = epoch]
            /\ last' = Call("set_epoch", "", r, 0, <<epoch>>, None)
    /\ UNCHANGED <<heap, subs, obs, hist, made, total, blob, taken>>

\* The body of start_epoch on a reporter whose epoch is cur and whose table
\* is stats: [err, epoch, total_count, warn, stats].

\* A start_epoch that removes nothing from the table.
StartEpochPop_Never(stats, epoch) == stats

\* self.stats.pop(epoch, None), epoch being the argument of start_epoch
StartEpochPop(stats, epoch) ==
    IF epoch # None THEN DictPop(stats, epoch[1]) ELSE stats

\* The count start_epoch hands to the SubReporter of epoch e: the
\* total_count of the same key in epoch e - 1, 0 when there is none.
StartEpochMissing(stats, e, key) ==
    \/ ~DictHas(stats, e - 1)
    \/ ~DictHas(DictGet(stats, e - 1), key)

\* A start_epoch that takes the count of whichever key epoch e - 1 holds first.
StartEpochCount_AnyKey(stats, e, key) ==
    IF ~DictHas(stats, e - 1) \/ DictGet(stats, e - 1) = <<>> THEN 0
    ELSE DictGet(DictGet(stats, e - 1)[1].v, "total_count")

StartEpochCount(stats, e, key) ==
    IF StartEpochMissing(stats, e, key) THEN 0
    ELSE DictGet(DictGet(DictGet(stats, e - 1), key), "total_count")

\* A start_epoch that warns whenever the record of the epoch before is missing.
StartEpochWarn_Always(stats, e, key) == StartEpochMissing(stats, e, key)

\* if self.epoch - 1 != 0, under the test for the missing record
StartEpochWarn(stats, e, key) == StartEpochMissing(stats, e, key) /\ e - 1 # 0

StartEpochBody(cur, stats, key, epoch) ==
    IF epoch # None /\ EpochInvalid(epoch[1])
    THEN [err |-> "ValueError", epoch |-> cur, total_count |-> 0,
          warn |-> FALSE, stats |-> stats]
    ELSE LET e == IF epoch # None THEN epoch[1] ELSE cur
         IN  [err |-> "",
              epoch |-> e,
              total_count |-> StartEpochCount(stats, e, key),
              warn |-> StartEpochWarn(stats, e, key),
              stats |-> StartEpochPop(stats, epoch)]

\* What start_epoch and observe share; how tells which of the two was called.
\* The caller assigns the SubReporter it returns to its variable i.
Start(how, r, i, key, epoch) ==
    LET b == StartEpochBody(reporters[r].epoch, StatsOf(r), key, epoch)
        args == <<key, epoch>>
    IN  /\ reporters[r].live
        /\ ~(i \in DOMAIN obs /\ obs[i] = "body")
        /\ IF b.err # ""
           THEN /\ last' = Call(how, b.err, r, 0, args, None)
                /\ UNCHANGED <<reporters, heap, subs, obs, hist, made>>
           ELSE /\ reporters' = [reporters EXCEPT ![r].epoch = b.epoch]
                /\ heap' = [heap EXCEPT ![reporters[r].stats] = b.stats]
                /\ subs' = (i :> SubReporter(key, b.epoch, b.total_count)) @@ subs
                /\ obs' = (i :> IF how = "observe" THEN "body" ELSE "none") @@ obs
                /\ hist' = (i :> [seed |-> b.total_count, calls |-> 0,
                                  counted |-> 0, live |-> 0]) @@ hist
                /\ made' = made + 1
                /\ last' = Call(how, "", r, i, args,
                                [total_count |-> b.total_count, warn |-> b.warn])
        /\ UNCHANGED <<total, blob, taken>>

start_epoch(r, i, key, epoch) == Start("start_epoch", r, i, key, epoch)

\* finish_epoch(sub_reporter): [err, stats, sub].
\* A finish_epoch that replaces the epoch's entry instead of adding to it.
FinishEpochStore_Replace(stats, cur, sub, record) ==
    DictSet(stats, cur, <<[k |-> sub.key, v |-> record]>>)

FinishEpochStore(stats, cur, sub, record) ==
    DictSet(stats, cur,
            DictSet(IF DictHas(stats, cur) THEN DictGet(stats, cur) ELSE <<>>,
                    sub.key, record))

\* A finish_epoch that stores no aggregate and so never fails on one.
AggregateAll_Empty(items, acc) == [err |-> "", stats |-> acc]

RECURSIVE AggregateAll(_, _)
AggregateAll(items, acc) ==
    IF items = <<>> THEN [err |-> "", stats |-> acc]
    ELSE LET a == aggregate(Head(items).v)
         IN  IF a.err # "" THEN [err |-> a.err, stats |-> acc]
             ELSE AggregateAll(Tail(items), DictSet(acc, Head(items).k, a.val))

\* A finish_epoch without the guard against a changed epoch.
FinishEpochDrift_Never(cur, sub) == FALSE

\* if self.epoch != sub_reporter.epoch
FinishEpochDrift(cur, sub) == cur # sub.epoch

FinishEpochBody(cur, stats, sub, elapsed) ==
    IF FinishEpochDrift(cur, sub)
    THEN [err |-> "RuntimeError", stats |-> stats, sub |-> sub]
    ELSE LET agg == AggregateAll(sub.stats, <<>>)
             record == DictSet(DictSet(agg.stats, "time", elapsed),
                               "total_count", sub.total_count)
         IN  IF agg.err # ""
             THEN [err |-> agg.err, stats |-> stats, sub |-> sub]
             ELSE [err |-> "",
                   stats |-> FinishEpochStore(stats, cur, sub, record),
                   sub |-> [sub EXCEPT !.finished = TRUE]]

\* What finish_epoch and the exit of observe share.
Finish(how, r, i, elapsed) ==
    LET b == FinishEpochBody(reporters[r].epoch, StatsOf(r), subs[i], elapsed)
    IN  /\ reporters[r].live
        /\ i \in DOMAIN subs
        /\ heap' = [heap EXCEPT ![reporters[r].stats] = b.stats]
        /\ subs' = [subs EXCEPT ![i] = b.sub]
        /\ last' = Call(how, b.err, r, i, <<>>, None)
        /\ UNCHANGED <<reporters, hist, made, total, blob, taken>>

finish_epoch(r, i, elapsed) ==
    /\ i \in DOMAIN subs
    /\ Finish("finish_epoch", r, i, elapsed)
    /\ UNCHANGED obs

\* with reporter.observe(key, epoch) as sub_reporter: the scope is entered
\* when start_epoch returns.
observe(r, i, key, epoch) == Start("observe", r, i, key, epoch)

\* The body ends without an exception: the generator resumes after its yield.
observe_exit(r, i, elapsed) ==
    /\ i \in DOMAIN obs /\ obs[i] = "body"
    /\ Finish("observe_exit", r, i, elapsed)
    /\ obs' = [obs EXCEPT ![i] = "exited"]

\* The body raises: contextmanager throws the exception into the generator at
\* its yield, which has no handler, and the exception leaves the with statement.
observe_raise(r, i) ==
    /\ i \in DOMAIN obs /\ obs[i] = "body"
    /\ obs' = [obs EXCEPT ![i] = "raised"]
    /\ last' = Call("observe_raise", "BodyError", r, i, <<>>, None)
    /\ UNCHANGED <<reporters, heap, subs, hist, made, total, blob, taken>>

\* sorted(values, key=...) as CPython sorts a list of fewer than 64 items: the
\* run at the head of the list is found with <, reversed when it descends,
\* and the items after it are put in place by binary insertion. The keys are
\* floats, so a comparison with NaN is false.
SortKey(mode, x) == IF mode = "min" THEN x[2] ELSE FNeg(x[2])

SortLess(mode, x, y) == FLess(SortKey(mode, x), SortKey(mode, y))

Reverse(s) == [i \in 1..Len(s) |-> s[Len(s) + 1 - i]]

\* The length of the run that starts the list, n items of it being known.
RECURSIVE CountRun(_, _, _, _)
CountRun(a, mode, n, descending) ==
    IF n = Len(a) THEN n
    ELSE IF SortLess(mode, a[n + 1], a[n]) = descending
    THEN CountRun(a, mode, n + 1, descending)
    ELSE n

\* Where pivot goes among a[l + 1 .. r], to the right of its equals.
RECURSIVE Bisect(_, _, _, _, _)
Bisect(a, mode, pivot, l, r) ==
    IF l >= r THEN l
    ELSE LET p == l + (r - l) \div 2
         IN  IF SortLess(mode, pivot, a[p + 1])
             THEN Bisect(a, mode, pivot, l, p)
             ELSE Bisect(a, mode, pivot, p + 1, r)

\* Binary insertion of a[start + 1 ..] into the sorted a[1 .. start].
RECURSIVE BinarySort(_, _, _)
BinarySort(a, mode, start) ==
    IF start >= Len(a) THEN a
    ELSE LET pivot == a[start + 1]
             l == Bisect(a, mode, pivot, 0, start)
         IN  BinarySort(SubSeq(a, 1, l) \o <<pivot>> \o SubSeq(a, l + 1, start)
                          \o SubSeq(a, start + 2, Len(a)),
                        mode, start + 1)

sorted(a, mode) ==
    IF Len(a) < 2 THEN a
    ELSE LET descending == SortLess(mode, a[2], a[1])
             n == CountRun(a, mode, 2, descending)
             run == IF descending
                    THEN Reverse(SubSeq(a, 1, n)) \o SubSeq(a, n + 1, Len(a))
                    ELSE a
         IN  BinarySort(run, mode, n)

\* [(e, self.stats[e][key][key2]) for e in self.stats]: [err, values].
RECURSIVE SortCollect(_, _, _, _)
SortCollect(items, key, key2, acc) ==
    IF items = <<>> THEN [err |-> "", values |-> acc]
    ELSE IF ~DictHas(Head(items).v, key)
    THEN [err |-> "KeyError", values |-> <<>>]
    ELSE IF ~DictHas(DictGet(Head(items).v, key), key2)
    THEN [err |-> "KeyError", values |-> <<>>]
    ELSE SortCollect(Tail(items), key, key2,
                     Append(acc, <<Head(items).k,
                                   DictGet(DictGet(Head(items).v, key), key2)>>))

\* sort_epochs_and_values(key, key2, mode): [err, values].
SortEpochsAndValuesBody(stats, key, key2, mode) ==
    IF mode \notin {"min", "max"} THEN [err |-> "ValueError", values |-> <<>>]
    ELSE LET c == SortCollect(stats, key, key2, <<>>)
         IN  IF c.err # "" THEN c
             ELSE [err |-> "", values |-> sorted(c.values, mode)]

sort_epochs_and_values(r, key, key2, mode) ==
    LET b == SortEpochsAndValuesBody(StatsOf(r), key, key2, mode)
    IN  /\ reporters[r].live
        /\ last' = Call("sort_epochs_and_values", b.err, r, 0,
                        <<key, key2, mode>>, b.values)
        /\ UNCHANGED <<reporters, heap, subs, obs, hist, made, total, blob, taken>>

\* The read accessors of the table. self.stats is a defaultdict(dict):
\* self.stats[epoch] of an epoch it does not hold inserts an empty dict for it.
DefaultGet(stats, epoch) ==
    IF DictHas(stats, epoch) THEN stats ELSE Append(stats, [k |-> epoch, v |-> <<>>])

\* max(self.stats) of a table that is not empty
MaxKey(stats) == CHOOSE e \in DictKeys(stats) : \A x \in DictKeys(stats) : x <= e

\* if epoch is None: epoch = max(self.stats): [err, epoch].
ReadEpoch(stats, epoch) ==
    IF epoch # None THEN [err |-> "", epoch |-> epoch[1]]
    ELSE IF stats = <<>> THEN [err |-> "ValueError", epoch |-> 0]
    ELSE [err |-> "", epoch |-> MaxKey(stats)]

\* The bodies of the accessors: [err, ret, stats], stats being the table after.
HasBody(stats, key, key2, epoch) ==
    LET e == ReadEpoch(stats, epoch)
    IN  IF e.err # "" THEN [err |-> e.err, ret |-> None, stats |-> stats]
        ELSE [err |-> "",
              ret |-> /\ DictHas(stats, e.epoch)
                      /\ DictHas(DictGet(stats, e.epoch), key)
                      /\ DictHas(DictGet(DictGet(stats, e.epoch), key), key2),
              stats |-> stats]

GetValueBody(stats, key, key2, epoch) ==
    LET e == ReadEpoch(stats, epoch)
        after == DefaultGet(stats, e.epoch)
        d == DictGet(after, e.epoch)
    IN  IF e.err # "" THEN [err |-> e.err, ret |-> None, stats |-> stats]
        ELSE IF ~DictHas(d, key) THEN [err |-> "KeyError", ret |-> None, stats |-> after]
        ELSE IF ~DictHas(DictGet(d, key), key2)
        THEN [err |-> "KeyError", ret |-> None, stats |-> after]
        ELSE [err |-> "", ret |-> DictGet(DictGet(d, key), key2), stats |-> after]

GetKeysBody(stats, epoch) ==
    LET e == ReadEpoch(stats, epoch)
        after == DefaultGet(stats, e.epoch)
        d == DictGet(after, e.epoch)
    IN  IF e.err # "" THEN [err |-> e.err, ret |-> None, stats |-> stats]
        ELSE [err |-> "", ret |-> [i \in 1..Len(d) |-> d[i].k], stats |-> after]

GetKeys2Body(stats, key, epoch) ==
    LET e == ReadEpoch(stats, epoch)
        after == DefaultGet(stats, e.epoch)
        d == DictGet(after, e.epoch)
        keys2 == SelectSeq(DictGet(d, key), LAMBDA x : x.k \notin {"time", "total_count"})
    IN  IF e.err # "" THEN [err |-> e.err, ret |-> None, stats |-> stats]
        ELSE IF ~DictHas(d, key) THEN [err |-> "KeyError", ret |-> None, stats |-> after]
        ELSE [err |-> "", ret |-> [i \in 1..Len(keys2) |-> keys2[i].k], stats |-> after]

\* The (key, key2) pairs of the streams of an epoch's entry, in its order.
RECURSIVE AllKeys(_)
AllKeys(d) ==
    IF d = <<>> THEN <<>>
    ELSE [i \in 1..Len(Head(d).v) |-> <<Head(d).k, Head(d).v[i].k>>] \o AllKeys(Tail(d))

GetAllKeysBody(stats, epoch) ==
    LET e == ReadEpoch(stats, epoch)
        after == DefaultGet(stats, e.epoch)
    IN  IF e.err # "" THEN [err |-> e.err, ret |-> None, stats |-> stats]
        ELSE [err |-> "", ret |-> AllKeys(DictGet(after, e.epoch)), stats |-> after]

\* A read accessor of reporter r whose body is b.
Read(op, r, args, b) ==
    /\ reporters[r].live
    /\ heap' = [heap EXCEPT ![reporters[r].stats] = b.stats]
    /\ last' = Call(op, b.err, r, 0, args, <<b.ret>>)
    /\ UNCHANGED <<reporters, subs, obs, hist, made, total, blob, taken>>

has(r, key, key2, epoch) ==
    Read("has", r, <<key, key2, epoch>>, HasBody(StatsOf(r), key, key2, epoch))

get_value(r, key, key2, epoch) ==
    Read("get_value", r, <<key, key2, epoch>>, GetValueBody(StatsOf(r), key, key2, epoch))

get_keys(r, epoch) ==
    Read("get_keys", r, <<epoch>>, GetKeysBody(StatsOf(r), epoch))

get_keys2(r, key, epoch) ==
    Read("get_keys2", r, <<key, epoch>>, GetKeys2Body(StatsOf(r), key, epoch))

get_all_keys(r, epoch) ==
    Read("get_all_keys", r, <<epoch>>, GetAllKeysBody(StatsOf(r), epoch))

\* ------------------------------------------------------------ SubReporter

\* self.stats[key2].append(r) on a defaultdict(list)
DictAppend(d, key, x) ==
    DictSet(d, key, Append(IF DictHas(d, key) THEN DictGet(d, key) ELSE <<>>, x))

\* A register that skips a None value before it looks at the key.
RegisterReserved_Valued(key2, v) == key2 \in _reserved /\ v # None

\* if key2 in _reserved
RegisterReserved(key2, v) == key2 \in _reserved

\* A register that looks at every item before it records any.
RECURSIVE RegisterAll(_, _, _)
RegisterAll(stats, items, weight) ==
    IF items = <<>> THEN stats
    ELSE IF Head(items).v = None THEN RegisterAll(stats, Tail(items), weight)
    ELSE RegisterAll(DictAppend(stats, Head(items).k,
                                to_reported_value(Head(items).v[1], weight).val),
                     Tail(items), weight)

RegisterLoop_Atomic(stats, items, weight) ==
    LET bad == {j \in 1..Len(items) :
                  \/ items[j].k \in _reserved
                  \/ (items[j].v # None
                      /\ to_reported_value(items[j].v[1], weight).err # "")}
        first == CHOOSE j \in bad : \A x \in bad : j <= x
    IN  IF bad = {} THEN [err |-> "", stats |-> RegisterAll(stats, items, weight)]
        ELSE [err |-> IF items[first].k \in _reserved THEN "RuntimeError"
                      ELSE "ValueError",
              stats |-> stats]

\* The for loop of register over stats.items(): [err, stats].
RECURSIVE RegisterLoop(_, _, _)
RegisterLoop(stats, items, weight) ==
    IF items = <<>> THEN [err |-> "", stats |-> stats]
    ELSE LET key2 == Head(items).k
             v == Head(items).v
         IN  IF RegisterReserved(key2, v)
             THEN [err |-> "RuntimeError", stats |-> stats]
             ELSE IF v = None
             THEN RegisterLoop(stats, Tail(items), weight)
             ELSE LET r == to_reported_value(v[1], weight)
                  IN  IF r.err # ""
                      THEN [err |-> r.err, stats |-> stats]
                      ELSE RegisterLoop(DictAppend(stats, key2, r.val),
                                        Tail(items), weight)

\* A register that ignores not_increment_count.
RegisterCount_Always(sub, not_increment_count) == sub.total_count + 1

RegisterCount(sub, not_increment_count) ==
    IF not_increment_count THEN sub.total_count ELSE sub.total_count + 1

\* A SubReporter that forgets it is finished.
Closed_Never(sub) == FALSE

\* if self._finished
Closed(sub) == sub.finished

\* register(stats, weight, not_increment_count) on a SubReporter: [err, sub].
RegisterBody(sub, stats, weight, not_increment_count) ==
    IF Closed(sub) THEN [err |-> "RuntimeError", sub |-> sub]
    ELSE LET loop == RegisterLoop(sub.stats, stats, weight)
         IN  [err |-> loop.err,
              sub |-> [sub EXCEPT
                         !.total_count = RegisterCount(sub, not_increment_count),
                         !.stats = loop.stats]]

\* hist counts the register calls made on the SubReporter: all of them
\* (calls), those without not_increment_count (counted), and among these
\* those made while it was not finished (live).
register(i, stats, weight, not_increment_count) ==
    LET b == RegisterBody(subs[i], stats, weight, not_increment_count)
    IN  /\ i \in DOMAIN subs
        /\ subs' = [subs EXCEPT ![i] = b.sub]
        /\ hist' = [hist EXCEPT
                      ![i].calls = @ + 1,
                      ![i].counted = IF not_increment_count THEN @ ELSE @ + 1,
                      ![i].live = IF not_increment_count \/ subs[i].finished
                                  THEN @ ELSE @ + 1]
        /\ last' = Call("register", b.err, "", i,
                        <<stats, weight, not_increment_count>>, None)
        /\ total' = [total EXCEPT ![subs[i].key] =
                        IF not_increment_count \/ subs[i].finished THEN @ ELSE @ + 1]
        /\ UNCHANGED <<reporters, heap, obs, made, blob, taken>>

\* stats[-nlatest:] of a list
Latest(stats, nlatest) ==
    IF nlatest = 0 \/ nlatest >= Len(stats) THEN stats
    ELSE SubSeq(stats, Len(stats) - nlatest + 1, Len(stats))

\* The for loop of logging over self.stats.items(): [err, message], the
\* message being the range it names and the key2=value items after it.
RECURSIVE LoggingLoop(_, _, _)
LoggingLoop(items, nlatest, message) ==
    IF items = <<>> THEN [err |-> "", message |-> message]
    ELSE LET stats == Head(items).v
             v == aggregate(Latest(stats, nlatest))
             head == IF message = <<>>
                     THEN <<Len(stats) - nlatest + 1, Len(stats)>>
                     ELSE message
         IN  IF v.err # "" THEN [err |-> v.err, message |-> head]
             ELSE LoggingLoop(Tail(items), nlatest,
                              Append(head, <<Head(items).k, v.val>>))

\* logging(nlatest=...) on a SubReporter: [err, message].
LoggingBody(sub, nlatest) ==
    IF Closed(sub) THEN [err |-> "RuntimeError", message |-> <<>>]
    ELSE LoggingLoop(sub.stats, IF nlatest = None THEN 0 ELSE nlatest[1], <<>>)

\* A logging that cuts each series down to the entries it reports.
LoggingKept_Latest(stats, nlatest) == Latest(stats, nlatest)

\* What logging leaves of a series: values = stats[-nlatest:] is a copy, and
\* the series itself stays whole.
LoggingKept(stats, nlatest) == stats

\* The SubReporter after logging.
LoggingSub(sub, nlatest) ==
    IF Closed(sub) \/ sub.stats = <<>> THEN sub
    ELSE [sub EXCEPT !.stats =
            [j \in 1..Len(sub.stats) |->
               [k |-> sub.stats[j].k,
                v |-> LoggingKept(sub.stats[j].v,
                                  IF nlatest = None THEN 0 ELSE nlatest[1])]]]

logging(i, nlatest) ==
    LET b == LoggingBody(subs[i], nlatest)
    IN  /\ i \in DOMAIN subs
        /\ subs' = [subs EXCEPT ![i] = LoggingSub(subs[i], nlatest)]
        /\ last' = Call("logging", b.err, "", i, <<nlatest>>, b.message)
        /\ UNCHANGED <<reporters, heap, obs, hist, made, total, blob, taken>>

finished(i) ==
    /\ i \in DOMAIN subs
    /\ subs' = [subs EXCEPT ![i].finished = TRUE]
    /\ last' = Call("finished", "", "", i, <<>>, None)
    /\ UNCHANGED <<reporters, heap, obs, hist, made, total, blob, taken>>

\* ------------------------------------------------------------ persistence

\* state_dict(): the dict holds the Reporter's table itself, not a copy.
StateDictBody(self) == [stats |-> self.stats, epoch |-> self.epoch]

state_dict(r) ==
    /\ reporters[r].live
    /\ blob' = <<StateDictBody(reporters[r])>>
    /\ taken' = <<[rep |-> r, epoch |-> reporters[r].epoch, stats |-> StatsOf(r)]>>
    /\ last' = Call("state_dict", "", r, 0, <<>>, None)
    /\ UNCHANGED <<reporters, heap, subs, obs, hist, made, total>>

\* A load_state_dict that takes the table and keeps its own epoch.
LoadStateDictBody_StatsOnly(self, sd) == [self EXCEPT !.stats = sd.stats]

LoadStateDictBody(self, sd) ==
    [self EXCEPT !.epoch = sd.epoch, !.stats = sd.stats]

load_state_dict(r) ==
    /\ reporters[r].live
    /\ blob # None
    /\ reporters' = [reporters EXCEPT ![r] = LoadStateDictBody(@, blob[1])]
    /\ last' = Call("load_state_dict", "", r, 0, <<>>, None)
    /\ UNCHANGED <<heap, subs, obs, hist, made, total, blob, taken>>

\* ------------------------------------------------------------------ inputs

\* The epoch arguments: None and the epochs up to MaxEpoch.
EpochArgs == {None} \cup {<<e>> : e \in 0..MaxEpoch}

\* Elapsed wall-clock time between a SubReporter's construction and its end.
Durations == {<<1, 1>>}

One == <<1, 1>>

Item(key2, v) == [k |-> key2, v |-> v]

\* ----------------------------------------------------------- specifications

\* The epoch lifecycle of one Reporter under a sequential caller, which holds
\* one SubReporter at a time: streams are opened with start_epoch, fed by
\* register and closed by finished or finish_epoch, while set_epoch moves the
\* epoch.
LifeDicts ==
    { <<>>,
      <<Item("loss", <<Scalar(One)>>)>>,
      <<Item("loss", None)>>,
      <<Item("loss", <<Scalar(One)>>), Item("time", <<Scalar(One)>>)>> }

Next ==
    \/ \E e \in 0..MaxEpoch : set_epoch("orig", e)
    \/ \E key \in Streams, e \in EpochArgs :
          made < MaxMade /\ start_epoch("orig", 1, key, e)
    \/ \E st \in LifeDicts, n \in BOOLEAN :
          /\ 1 \in DOMAIN hist /\ hist[1].calls < MaxCalls
          /\ register(1, st, None, n)
    \/ finished(1)
    \/ \E d \in Durations : finish_epoch("orig", 1, d)

Spec == Init /\ [][Next]_vars

\* Two callers share one Reporter, each inside its own with observe(...)
\* scope: the body registers, moves the epoch, finishes its stream itself,
\* ends or raises.
ObserveDicts == {<<>>, <<Item("loss", <<Scalar(One)>>)>>}

NextObserve ==
    \/ \E e \in 0..MaxEpoch : set_epoch("orig", e)
    \/ \E i \in Slots, key \in Streams, e \in EpochArgs :
          made < MaxSubs /\ observe("orig", i, key, e)
    \/ \E i \in Slots, st \in ObserveDicts :
          /\ i \in DOMAIN hist /\ hist[i].calls < MaxCalls
          /\ register(i, st, None, FALSE)
    \/ \E i \in Slots, d \in Durations : finish_epoch("orig", i, d)
    \/ \E i \in Slots, d \in Durations : observe_exit("orig", i, d)
    \/ \E i \in Slots : observe_raise("orig", i)

SpecObserve == Init /\ [][NextObserve]_vars

\* The life of one SubReporter: it is opened once, fed by register calls
\* with every shape of stats mapping, logged, and closed by finished or
\* finish_epoch; calls go on after it is closed.
StreamKeys == UserKeys \cup _reserved
StreamValues == {None, <<Scalar(One)>>, <<ArrayV>>}

\* The stats mappings of at most two keys, in every order.
StreamDicts ==
    {<<>>}
    \cup {<<Item(k, v)>> : k \in StreamKeys, v \in StreamValues}
    \cup {<<Item(k[1], v[1]), Item(k[2], v[2])>> :
            k \in {x \in StreamKeys \X StreamKeys : x[1] # x[2]},
            v \in StreamValues \X StreamValues}

StreamWeights == {None}

\* Number of register calls made on the SubReporter of SpecStream.
StreamCalls == 2

NextStream ==
    \/ made = 0 /\ start_epoch("orig", 1, "train", None)
    \/ \E st \in StreamDicts, w \in StreamWeights, n \in BOOLEAN :
          /\ 1 \in DOMAIN hist /\ hist[1].calls < StreamCalls
          /\ register(1, st, w, n)
    \/ \E n \in {None} \cup {<<k>> : k \in 0..StreamCalls} : logging(1, n)
    \/ finished(1)
    \/ \E d \in Durations : finish_epoch("orig", 1, d)

SpecStream == Init /\ [][NextStream]_vars

\* A training run as the docstrings of Reporter and Trainer describe it: for
\* epoch 1, 2, ... the stream "train" and then the stream "eval" are observed,
\* each registering its iterations and ending normally. The epoch is either
\* set with set_epoch before observe(key) or passed as observe(key, epoch).

\* Number of epochs of a training run.
TrainEpochs == 2

\* Whether no stream is open, and the stream and epoch to observe next.
TrainIdle == IF 1 \in DOMAIN subs THEN obs[1] = "exited" ELSE TRUE
TrainKey == IF 1 \in DOMAIN subs /\ subs[1].key = "train" THEN "eval" ELSE "train"
TrainEpoch ==
    IF 1 \notin DOMAIN subs THEN 1
    ELSE IF subs[1].key = "train" THEN subs[1].epoch
    ELSE subs[1].epoch + 1

\* What train_one_epoch and eval_one_epoch register: an empty mapping, the
\* statistics of the model, and the learning rate without counting.
TrainDicts == {<<>>, <<Item("loss", <<Scalar(One)>>)>>}

NextTrain ==
    \/ /\ TrainIdle /\ TrainEpoch <= TrainEpochs
       /\ reporters["orig"].epoch # TrainEpoch
       /\ set_epoch("orig", TrainEpoch)
    \/ /\ TrainIdle /\ reporters["orig"].epoch = TrainEpoch
       /\ observe("orig", 1, TrainKey, None)
    \/ /\ TrainIdle /\ TrainEpoch <= TrainEpochs
       /\ observe("orig", 1, TrainKey, <<TrainEpoch>>)
    \/ \E st \in TrainDicts, n \in BOOLEAN :
          /\ 1 \in DOMAIN obs /\ obs[1] = "body"
          /\ hist[1].calls < MaxCalls + 1
          /\ register(1, st, None, n)
    \/ \E d \in Durations : observe_exit("orig", 1, d)

SpecTrain == Init /\ [][NextTrain]_vars

\* A checkpoint: while the Reporter of a run goes through its epochs, its
\* state is exported with state_dict, and loaded back into it or into the
\* Reporter a resumed run has constructed, which then opens streams.

\* Number of SubReporter objects the run constructs before and after a
\* checkpoint.
StateMade == 1

NextState ==
    \/ \E e \in 0..MaxEpoch : set_epoch("orig", e)
    \/ \E key \in Streams, e \in EpochArgs :
          made < StateMade /\ start_epoch("orig", 1, key, e)
    \/ \E st \in ObserveDicts :
          /\ 1 \in DOMAIN hist /\ hist[1].calls < MaxCalls
          /\ register(1, st, None, FALSE)
    \/ \E d \in Durations : finish_epoch("orig", 1, d)
    \/ \E r \in Reporters : state_dict(r)
    \/ \E e \in 0..MaxEpoch : Construct("fresh", e)
    \/ \E r \in Reporters : load_state_dict(r)
    \/ \E key \in Streams, e \in EpochArgs :
          made < StateMade + 1 /\ start_epoch("fresh", 2, key, e)

SpecState == Init /\ [][NextState]_vars

\* Model selection: a stream is observed for epochs in any order, each
\* registering one loss or none, and the epochs are ranked by the loss of the
\* stream "eval".

\* Largest epoch of a ranking, and the number of streams observed for it.
SortEpochs == 3
SortMade == 3

\* The losses 0.2, 0.5 and 0.8, and the NaN of a diverged batch.
SortValues == {<<1, 5>>, <<1, 2>>, <<4, 5>>, NaN}

SortModes == {"min", "max", "mean"}

SortIdle == IF 1 \in DOMAIN subs THEN subs[1].finished ELSE TRUE

NextSort ==
    \/ \E e \in 1..SortEpochs, key \in Streams :
          SortIdle /\ made < SortMade /\ start_epoch("orig", 1, key, <<e>>)
    \/ \E v \in SortValues :
          /\ 1 \in DOMAIN hist /\ hist[1].calls < MaxCalls
          /\ register(1, <<Item("loss", <<Scalar(v)>>)>>, None, FALSE)
    \/ \E d \in Durations : finish_epoch("orig", 1, d)
    \/ \E mode \in SortModes : sort_epochs_and_values("orig", "eval", "loss", mode)

SpecSort == Init /\ [][NextSort]_vars

\* The reducer on its own: aggregate is applied to every short sequence of
\* reported values, the non-finite ones included.

\* Longest sequence of reported values aggregate is applied to.
AggregateLen == 3

AggregateValues == {One, <<3, 1>>, NaN, Inf}
AggregateWeights == {<<0, 1>>, One, <<-1, 1>>, NaN, Inf}

AggregateEntries ==
    {Average(v) : v \in AggregateValues}
    \cup {WeightedAverage(v, w) : v \in AggregateValues, w \in AggregateWeights}

AggregateInputs ==
    UNION {[1..n -> AggregateEntries] : n \in 0..AggregateLen}

\* The caller holds a sequence of reported values.
InitAggregate ==
    /\ reporters = [r \in Reporters |->
                      IF r = "orig" THEN Reporter(r, 0)
                      ELSE [live |-> FALSE, epoch |-> 0, stats |-> r]]
    /\ heap = [r \in Reporters |-> <<>>]
    /\ subs = <<>>
    /\ obs = <<>>
    /\ hist = <<>>
    /\ made = 0
    /\ total = [key \in Streams |-> 0]
    /\ blob = None
    /\ taken = None
    /\ \E values \in AggregateInputs :
          last = Call("values", "", "", 0, <<values>>, None)

\* aggregate(values) of the sequence the caller holds.
CallAggregate ==
    LET b == aggregate(last.args[1])
    IN  /\ last.op = "values"
        /\ last' = Call("aggregate", b.err, "", 0, last.args,
                        [val |-> b.val, warn |-> b.warn])
        /\ UNCHANGED <<reporters, heap, subs, obs, hist, made, total, blob, taken>>

NextAggregate == CallAggregate

SpecAggregate == InitAggregate /\ [][NextAggregate]_vars

\* Weighted statistics: one stream is fed values of two keys with and without
\* a weight, the weight being finite or not, and is logged and finished.

\* Number of register calls made on the SubReporter of SpecWeights.
WeightCalls == 3

WeightDicts == {<<Item(k, <<Scalar(One)>>)>> : k \in UserKeys}

Weights ==
    {None} \cup {<<Scalar(w)>> : w \in {<<0, 1>>, One, NaN, Inf}}

NextWeights ==
    \/ made = 0 /\ start_epoch("orig", 1, "train", None)
    \/ \E st \in WeightDicts, w \in Weights :
          /\ 1 \in DOMAIN hist /\ hist[1].calls < WeightCalls
          /\ register(1, st, w, FALSE)
    \/ \E n \in {None, <<1>>} : logging(1, n)
    \/ \E d \in Durations : finish_epoch("orig", 1, d)

SpecWeights == Init /\ [][NextWeights]_vars

\* Epochs: the Reporter is constructed, moved and started with every epoch
\* argument, the negative ones included, while streams are finished into the
\* table.

\* Number of SubReporter objects constructed in SpecEpoch.
EpochMade == 2

\* The epochs callers pass: -1 and the epochs up to MaxEpoch + 1.
EpochInts == -1..(MaxEpoch + 1)

NextEpoch ==
    \/ \E e \in EpochInts : set_epoch("orig", e)
    \/ \E e \in EpochInts : Construct("fresh", e)
    \/ \E key \in Streams, e \in {None} \cup {<<x>> : x \in EpochInts} :
          /\ made < EpochMade \/ (e # None /\ e[1] < 0)
          /\ start_epoch("orig", 1, key, e)
    \/ \E st \in ObserveDicts :
          /\ 1 \in DOMAIN hist /\ hist[1].calls < MaxCalls
          /\ register(1, st, None, FALSE)
    \/ \E d \in Durations : finish_epoch("orig", 1, d)

SpecEpoch == Init /\ [][NextEpoch]_vars

\* Readers: while streams are finished into the table, the table is read
\* through every accessor, for epochs, streams and keys it holds or not.

\* Number of SubReporter objects constructed in SpecRead.
ReadMade == 1

ReadKeys2 == {"loss", "time"}

NextRead ==
    \/ \E key \in Streams, e \in EpochArgs :
          made < ReadMade /\ start_epoch("orig", 1, key, e)
    \/ \E st \in ObserveDicts :
          /\ 1 \in DOMAIN hist /\ hist[1].calls < MaxCalls
          /\ register(1, st, None, FALSE)
    \/ \E d \in Durations : finish_epoch("orig", 1, d)
    \/ \E key \in Streams, key2 \in ReadKeys2, e \in EpochArgs :
          has("orig", key, key2, e)
    \/ \E key \in Streams, key2 \in ReadKeys2, e \in EpochArgs :
          get_value("orig", key, key2, e)
    \/ \E e \in EpochArgs : get_keys("orig", e)
    \/ \E key \in Streams, e \in EpochArgs : get_keys2("orig", key, e)
    \/ \E e \in EpochArgs : get_all_keys("orig", e)
    \/ \E key \in Streams, key2 \in ReadKeys2, mode \in SortModes :
          sort_epochs_and_values("orig", key, key2, mode)

SpecRead == Init /\ [][NextRead]_vars

\* ------------------------------------------------------------------ claims

\* The Reporter's table after the step.
StatsOfNext(r) == heap'[reporters'[r].stats]

\* The step is a successful start_epoch or observe.
Started == last'.op \in {"start_epoch", "observe"} /\ last'.err = ""

\* The step is a successful finish_epoch, called directly or by the end of an
\* observe scope, of the SubReporter in variable i.
Finished(i) ==
    /\ last'.op \in {"finish_epoch", "observe_exit"}
    /\ last'.err = ""
    /\ last'.slot = i

\* The record stats[e][key] of a table when it has one.
HasRecord(stats, e, key) == DictHas(stats, e) /\ DictHas(DictGet(stats, e), key)
Record(stats, e, key) == DictGet(DictGet(stats, e), key)

\* C2: start_epoch(stream) for current epoch N returns a SubReporter whose
\* total_count is stats[N-1][stream]["total_count"] when the table holds that
\* record and 0 when it does not, whatever the other streams of epoch N-1 hold.
C2_StartEpochSeed ==
    [][Started =>
         LET r == last'.rep
             N == reporters'[r].epoch
             key == last'.args[1]
             seed == subs'[last'.slot].total_count
         IN  /\ N = IF last'.args[2] = None THEN reporters[r].epoch
                    ELSE last'.args[2][1]
             /\ HasRecord(StatsOf(r), N - 1, key)
                  => seed = DictGet(Record(StatsOf(r), N - 1, key), "total_count")
             /\ ~HasRecord(StatsOf(r), N - 1, key) => seed = 0
      ]_vars

\* A start_epoch has seeded a non-zero count from the previous epoch while that
\* epoch also holds another stream with a different count.
C2_Witness ==
    /\ last.op = "start_epoch" /\ last.err = ""
    /\ subs[last.slot].total_count > 0
    /\ \E other \in Streams \ {last.args[1]} :
          /\ HasRecord(StatsOf(last.rep), reporters[last.rep].epoch - 1, other)
          /\ DictGet(Record(StatsOf(last.rep), reporters[last.rep].epoch - 1, other),
                     "total_count") # subs[last.slot].total_count

\* What C8 says of a successful finish_epoch of the SubReporter in variable i
\* when calls is the number of register calls that count.
C8_Stores(i, calls) ==
    LET r == last'.rep
        sub == subs[i]
        cur == reporters[r].epoch
        before == StatsOf(r)
        after == StatsOfNext(r)
        rec == Record(after, cur, sub.key)
    IN  /\ HasRecord(after, cur, sub.key)
        /\ DictKeys(rec) = DictKeys(sub.stats) \cup {"time", "total_count"}
        /\ Len(rec) = Cardinality(DictKeys(rec))
        /\ \A key2 \in DictKeys(sub.stats) :
              /\ Len(DictGet(sub.stats, key2)) >= 1
              /\ DictGet(rec, key2) = aggregate(DictGet(sub.stats, key2)).val
        /\ DictGet(rec, "total_count") = hist[i].seed + calls
        /\ subs'[i].finished
        /\ \A other \in Streams \ {sub.key} :
              /\ HasRecord(after, cur, other) <=> HasRecord(before, cur, other)
              /\ HasRecord(before, cur, other)
                   => Record(after, cur, other) = Record(before, cur, other)

\* C8 as stated: a successful finish_epoch stores under stats[epoch][key] one
\* aggregate per key with a value, "time" and "total_count", the latter being
\* the seed plus the number of register calls without not_increment_count,
\* marks the stream finished and leaves the epoch's other streams alone.
C8_Original ==
    [][\A i \in DOMAIN subs : Finished(i) => C8_Stores(i, hist[i].counted)]_vars

\* C8 as amended: the register calls that count are those made while the
\* stream was not finished; a call on a finished stream is rejected uncounted.
C8_FinishEpochStores ==
    [][\A i \in DOMAIN subs : Finished(i) => C8_Stores(i, hist[i].live)]_vars

\* A finish_epoch has stored a record with a statistic and a non-zero count in
\* an epoch that holds the other stream too.
C8_Witness ==
    /\ last.op = "finish_epoch" /\ last.err = ""
    /\ LET sub == subs[last.slot]
           cur == reporters[last.rep].epoch
       IN  /\ HasRecord(StatsOf(last.rep), cur, sub.key)
           /\ DictHas(Record(StatsOf(last.rep), cur, sub.key), "loss")
           /\ DictGet(Record(StatsOf(last.rep), cur, sub.key), "total_count") > 0
           /\ \E other \in Streams \ {sub.key} : HasRecord(StatsOf(last.rep), cur, other)

\* C1 as stated: after an observe scope whose body raised, the stream is
\* finished and the table holds stats[epoch][stream], the epoch being the one
\* the stream was opened for, and the exception reaches the caller.
C1_Original ==
    \A i \in DOMAIN obs :
        (/\ last.op = "observe_raise" /\ last.slot = i
         /\ subs[i].epoch = reporters[last.rep].epoch)
        => /\ last.err = "BodyError"
           /\ subs[i].finished
           /\ HasRecord(StatsOf(last.rep), reporters[last.rep].epoch, subs[i].key)

\* The body of an observe scope has raised after registering a statistic.
C1_Witness ==
    /\ last.op = "observe_raise" /\ last.err = "BodyError"
    /\ obs[last.slot] = "raised"
    /\ subs[last.slot].total_count > 0
    /\ subs[last.slot].epoch = reporters[last.rep].epoch

\* C4: finish_epoch with a stream whose epoch is not the Reporter's current
\* epoch fails, and leaves the table as it was and the stream unfinished.
C4_FinishEpochDrift ==
    [][\A i \in DOMAIN subs :
         (/\ last'.op \in {"finish_epoch", "observe_exit"} /\ last'.slot = i
          /\ subs[i].epoch # reporters[last'.rep].epoch)
         => /\ last'.err = "RuntimeError"
            /\ heap' = heap
            /\ reporters' = reporters
            /\ subs'[i] = subs[i]
            /\ ~subs[i].finished => ~subs'[i].finished
      ]_vars

\* A finish_epoch has failed on an unfinished stream of another epoch while
\* the table holds a record.
C4_Witness ==
    /\ last.op = "finish_epoch" /\ last.err = "RuntimeError"
    /\ subs[last.slot].epoch # reporters[last.rep].epoch
    /\ ~subs[last.slot].finished
    /\ StatsOf(last.rep) # <<>>

\* The step is a register call on the SubReporter in variable i.
Registered(i) == last'.op = "register" /\ last'.slot = i

\* The step leaves variable i holding the SubReporter it held.
Kept(i) == i \in DOMAIN subs /\ ~(Started /\ last'.slot = i)

\* The keys of a stats mapping and those passed with None.
KeysOf(stats) == {stats[j].k : j \in 1..Len(stats)}
NoneKeysOf(stats) == {stats[j].k : j \in {x \in 1..Len(stats) : stats[x].v = None}}

\* The series of a key of a SubReporter, empty when the key is not recorded.
Series(sub, key2) == IF DictHas(sub.stats, key2) THEN DictGet(sub.stats, key2) ELSE <<>>

\* C5: on an unfinished stream a successful register call adds exactly 1 to
\* total_count without not_increment_count, whatever the keys and values, and
\* nothing with it; a None value appends nothing to its key's series; and
\* total_count never decreases while the stream lives.
C5_RegisterCounts ==
    [][\A i \in DOMAIN subs :
         /\ (Registered(i) /\ ~subs[i].finished /\ last'.err = "")
            => /\ ~last'.args[3] => subs'[i].total_count = subs[i].total_count + 1
               /\ last'.args[3] => subs'[i].total_count = subs[i].total_count
               /\ \A key2 \in NoneKeysOf(last'.args[1]) :
                     /\ Series(subs'[i], key2) = Series(subs[i], key2)
                     /\ DictHas(subs'[i].stats, key2) <=> DictHas(subs[i].stats, key2)
         /\ Kept(i) => subs'[i].total_count >= subs[i].total_count
      ]_vars

\* A register call of two keys, one of them None, has succeeded and counted.
C5_Witness ==
    /\ last.op = "register" /\ last.err = "" /\ ~last.args[3]
    /\ Len(last.args[1]) = 2
    /\ NoneKeysOf(last.args[1]) # {}
    /\ subs[last.slot].total_count = hist[last.slot].seed + 2
    /\ ~subs[last.slot].finished

\* C6: a register call whose stats mapping holds "time" or "total_count"
\* fails, whatever the value of that key and its place among the keys; no
\* SubReporter ever records a series under a reserved key.
C6_ReservedKeys ==
    /\ (last.op = "register" /\ KeysOf(last.args[1]) \cap _reserved # {})
       => last.err # ""
    /\ \A i \in DOMAIN subs : DictKeys(subs[i].stats) \cap _reserved = {}

\* A register call on an open stream has failed on a reserved key passed with
\* None after a valid key.
C6_Witness ==
    /\ last.op = "register" /\ last.err = "RuntimeError"
    /\ ~subs[last.slot].finished
    /\ Len(last.args[1]) = 2
    /\ last.args[1][1] = Item("loss", <<Scalar(One)>>)
    /\ last.args[1][2].k \in _reserved /\ last.args[1][2].v = None

\* C7: a finished stream stays finished, every register and logging call on
\* it fails, and its total_count and series never change again.
C7_FinishedIsFinal ==
    [][\A i \in DOMAIN subs :
         (Kept(i) /\ subs[i].finished)
         => /\ subs'[i].finished
            /\ subs'[i].total_count = subs[i].total_count
            /\ subs'[i].stats = subs[i].stats
            /\ (last'.op \in {"register", "logging"} /\ last'.slot = i)
                 => last'.err = "RuntimeError"
      ]_vars

\* A register call has been refused by a stream that finish_epoch finished
\* after it had recorded a value.
C7_Witness ==
    /\ last.op = "register" /\ last.err = "RuntimeError"
    /\ subs[last.slot].finished
    /\ subs[last.slot].stats # <<>>
    /\ HasRecord(StatsOf("orig"), subs[last.slot].epoch, subs[last.slot].key)

\* C3 as stated: in a training run the total_count of the open stream is the
\* number of counted register calls made on streams of its name in all the
\* epochs so far, whichever way the epoch is given.
C3_Original ==
    (1 \in DOMAIN subs /\ obs[1] = "body")
    => subs[1].total_count = total[subs[1].key]

\* The stream "train" is open in epoch 2 after iterations in epoch 1.
C3_Witness ==
    /\ 1 \in DOMAIN subs /\ obs[1] = "body"
    /\ subs[1].key = "train" /\ subs[1].epoch = 2
    /\ total["train"] > 0

\* C9: load_state_dict of what state_dict has just returned leaves the
\* Reporter that loads it with the epoch and the table of the Reporter that
\* exported it, a Reporter that loads its own state being left as it was; and
\* a start_epoch on another Reporter that has just loaded it hands out the
\* total_count the exporting Reporter would.
C9_RoundTrip ==
    [][/\ (last.op = "state_dict" /\ last'.op = "load_state_dict")
          => /\ last'.err = ""
             /\ reporters'[last'.rep].epoch = taken[1].epoch
             /\ StatsOfNext(last'.rep) = taken[1].stats
             /\ last'.rep = last.rep => (reporters' = reporters /\ heap' = heap)
       /\ (/\ last.op = "load_state_dict" /\ last.rep # taken[1].rep
           /\ reporters[taken[1].rep].epoch = taken[1].epoch
           /\ StatsOf(taken[1].rep) = taken[1].stats
           /\ Started /\ last'.rep = last.rep)
          => LET would == StartEpochBody(reporters[taken[1].rep].epoch,
                                         StatsOf(taken[1].rep),
                                         last'.args[1], last'.args[2])
             IN  /\ subs'[last'.slot].total_count = would.total_count
                 /\ subs'[last'.slot].epoch = would.epoch
      ]_vars

\* The second Reporter, constructed for another epoch, has loaded the state of
\* the first and opened a stream with the count of the epoch before.
C9_Witness ==
    /\ last.op = "start_epoch" /\ last.err = "" /\ last.rep = "fresh"
    /\ reporters["fresh"].stats = reporters["orig"].stats
    /\ taken # None /\ taken[1].rep = "orig"
    /\ subs[last.slot].total_count > 0

\* The (epoch, value) pairs of a table for (key, key2), in its order.
SortPairs(stats, key, key2) ==
    [i \in 1..Len(stats) |-> <<stats[i].k, DictGet(DictGet(stats[i].v, key), key2)>>]

\* C10 as stated: when every epoch of the table holds (key, key2),
\* sort_epochs_and_values returns a permutation of the (epoch, value) pairs in
\* which no value comes before a smaller one for "min" or before a larger one
\* for "max", equal values staying in the order of the table.
C10_Original ==
    LET stats == StatsOf(last.rep)
        key == last.args[1]
        key2 == last.args[2]
        mode == last.args[3]
        pairs == SortPairs(stats, key, key2)
        out == last.ret
        At(x) == CHOOSE i \in 1..Len(pairs) : pairs[i] = x
    IN  (/\ last.op = "sort_epochs_and_values"
         /\ mode \in {"min", "max"}
         /\ \A i \in 1..Len(stats) : HasRecord(stats, stats[i].k, key)
         /\ \A i \in 1..Len(stats) : DictHas(Record(stats, stats[i].k, key), key2))
        => /\ last.err = ""
           /\ Len(out) = Len(pairs)
           /\ {out[i] : i \in 1..Len(out)} = {pairs[i] : i \in 1..Len(pairs)}
           /\ \A i, j \in 1..Len(out) :
                 i < j => /\ mode = "min" => ~FLess(out[j][2], out[i][2])
                          /\ mode = "max" => ~FLess(out[i][2], out[j][2])
                          /\ (out[i][2] = out[j][2] /\ ~isnan(out[i][2]))
                               => At(out[i]) < At(out[j])

\* Three epochs, one of them with a NaN loss, have been ranked.
C10_Witness ==
    /\ last.op = "sort_epochs_and_values" /\ last.err = ""
    /\ last.args[3] = "min"
    /\ Len(last.ret) = 3
    /\ \E i \in 1..3 : isnan(last.ret[i][2])
    /\ \E i, j \in 1..3 : i # j /\ last.ret[i][2] = last.ret[j][2] /\ ~isnan(last.ret[i][2])

\* The epochs of a table that hold (key, key2), in its order.
SortHolding(stats, key, key2) ==
    SelectSeq(stats, LAMBDA x : DictHas(x.v, key) /\ DictHas(DictGet(x.v, key), key2))

\* C11 as stated: sort_epochs_and_values ranges over the epochs of the table
\* that hold (key, key2); an epoch without the stream or without the key adds
\* no pair and does not make the call fail.
C11_Original ==
    LET stats == StatsOf(last.rep)
        holding == SortHolding(stats, last.args[1], last.args[2])
    IN  (last.op = "sort_epochs_and_values" /\ last.args[3] \in {"min", "max"})
        => /\ last.err = ""
           /\ {last.ret[i][1] : i \in 1..Len(last.ret)}
                = {holding[i].k : i \in 1..Len(holding)}

\* The epochs have been ranked while one epoch holds only the stream "train"
\* and another holds the loss of "eval".
C11_Witness ==
    /\ last.op = "sort_epochs_and_values" /\ last.args[3] \in {"min", "max"}
    /\ last.args[1] = "eval"
    /\ SortHolding(StatsOf(last.rep), "eval", "loss") # <<>>
    /\ \E i \in 1..Len(StatsOf(last.rep)) :
          /\ DictHas(StatsOf(last.rep)[i].v, "train")
          /\ ~DictHas(StatsOf(last.rep)[i].v, "eval")

\* The step before was aggregate(values) of entries that are all of one type.
Aggregated(type) ==
    /\ last.op = "aggregate"
    /\ \A i \in 1..Len(last.args[1]) : last.args[1][i].type = type

\* The sum of weight * (value - r) over entries with finite values and weights.
RECURSIVE Moment(_, _)
Moment(entries, r) ==
    IF entries = <<>> THEN <<0, 1>>
    ELSE FAdd(FMul(Head(entries).weight, FAdd(Head(entries).value, FNeg(r))),
              Moment(Tail(entries), r))

RECURSIVE WeightSum(_)
WeightSum(entries) ==
    IF entries = <<>> THEN <<0, 1>>
    ELSE FAdd(Head(entries).weight, WeightSum(Tail(entries)))

\* C12: for WeightedAverage entries aggregate raises no error and reduces the
\* entries whose value and weight are both finite: NaN when there is none or
\* their weights sum to 0, and otherwise the r for which the sum of
\* weight * (value - r) over them is 0, which is sum(value * weight) / sum(weight).
C12_WeightedAverage ==
    LET values == last.args[1]
        survivors == SelectSeq(values,
                       LAMBDA v : v.value[2] # 0 /\ v.weight[2] # 0)
        r == last.ret.val
    IN  (Aggregated("WeightedAverage") /\ values # <<>>)
        => /\ last.err = ""
           /\ IF survivors = <<>> \/ WeightSum(survivors) = <<0, 1>>
              THEN r = NaN
              ELSE r[2] > 0 /\ Moment(survivors, r) = <<0, 1>>

\* Three weighted entries have been reduced to a number, one of them dropped
\* for its infinite weight and one for its NaN value.
C12_Witness ==
    /\ Aggregated("WeightedAverage") /\ Len(last.args[1]) = 3
    /\ last.ret.val = <<3, 1>>
    /\ \E i \in 1..3 : last.args[1][i].weight = Inf /\ last.args[1][i].value = One
    /\ \E i \in 1..3 : last.args[1][i].value = NaN /\ last.args[1][i].weight = One

\* C13: for Average entries aggregate raises no error; it is NaN for an empty
\* and for an all-NaN sequence, and otherwise the mean of the values that are
\* not NaN: the r for which the sum of (value - r) over them is 0 when they
\* are all finite, and the float sum of the infinite ones when some are not.
C13_Average ==
    LET values == last.args[1]
        kept == SelectSeq(values, LAMBDA v : v.value # NaN)
        inf == SelectSeq(kept, LAMBDA v : v.value[2] = 0)
        ones == [i \in 1..Len(kept) |-> [value |-> kept[i].value, weight |-> One]]
        r == last.ret.val
    IN  Aggregated("Average")
        => /\ last.err = ""
           /\ IF kept = <<>> THEN r = NaN
              ELSE IF inf = <<>> THEN r[2] > 0 /\ Moment(ones, r) = <<0, 1>>
              ELSE IF \A i \in 1..Len(inf) : inf[i].value = inf[1].value
              THEN r = inf[1].value
              ELSE r = NaN

\* The mean of 1 and 3 has been taken from three entries, one of them NaN.
C13_Witness ==
    /\ Aggregated("Average") /\ Len(last.args[1]) = 3
    /\ last.ret.val = <<2, 1>>
    /\ \E i \in 1..3 : last.args[1][i].value = NaN

\* A series holds an entry with a weight and an entry without.
Mixed(series) ==
    /\ \E i \in 1..Len(series) : series[i].type = "Average"
    /\ \E i \in 1..Len(series) : series[i].type = "WeightedAverage"

\* C14: aggregate of a series that holds both Average and WeightedAverage
\* entries raises ValueError, in whatever order they come and whether the
\* weights are finite or not; and finish_epoch of a stream with such a series
\* fails, leaving the table as it was and the stream unfinished.
C14_MixedTypes ==
    [][\A i \in DOMAIN subs :
         /\ \A key2 \in DictKeys(subs[i].stats) :
               Mixed(DictGet(subs[i].stats, key2))
               => aggregate(DictGet(subs[i].stats, key2)).err = "ValueError"
         /\ (/\ last'.op \in {"finish_epoch", "observe_exit"} /\ last'.slot = i
             /\ \E key2 \in DictKeys(subs[i].stats) : Mixed(DictGet(subs[i].stats, key2)))
            => /\ last'.err = "ValueError"
               /\ heap' = heap
               /\ reporters' = reporters
               /\ subs'[i] = subs[i]
               /\ ~subs'[i].finished
      ]_vars

\* finish_epoch has failed on a stream whose loss was registered with an
\* infinite weight, then without a weight, while another key is of one type.
C14_Witness ==
    /\ last.op = "finish_epoch" /\ last.err = "ValueError"
    /\ ~subs[last.slot].finished
    /\ DictHas(subs[last.slot].stats, "loss") /\ DictHas(subs[last.slot].stats, "acc")
    /\ LET loss == DictGet(subs[last.slot].stats, "loss")
       IN  /\ Len(loss) = 2
           /\ loss[1] = WeightedAverage(One, Inf)
           /\ loss[2] = Average(One)
    /\ ~Mixed(DictGet(subs[last.slot].stats, "acc"))

\* The epoch argument of the call of the step, None when it has none.
EpochArg ==
    IF last'.op \in {"__init__", "set_epoch"} THEN <<last'.args[1]>>
    ELSE IF last'.op \in {"start_epoch", "observe"} THEN last'.args[2]
    ELSE None

\* C15: the epoch of a Reporter is never negative: the constructor, set_epoch
\* and start_epoch fail on a negative epoch and leave the epoch, the table and
\* the streams as they were.
C15_EpochNonNegative ==
    [][/\ \A r \in Reporters : reporters'[r].epoch >= 0
       /\ (IF EpochArg = None THEN FALSE ELSE EpochArg[1] < 0)
          => /\ last'.err = "ValueError"
             /\ reporters' = reporters
             /\ heap' = heap
             /\ subs' = subs
      ]_vars

\* start_epoch has failed on epoch -1 in a later epoch with a table that holds
\* records.
C15_Witness ==
    /\ last.op = "start_epoch" /\ last.err = "ValueError"
    /\ last.args[2] = <<-1>>
    /\ reporters["orig"].epoch > 0
    /\ StatsOf("orig") # <<>>

\* C16: start_epoch with an epoch that is not negative succeeds; it warns
\* exactly when the table holds no record of the stream for epoch N - 1 and
\* N - 1 is not 0, and the count it hands out without that record is 0.
C16_StartEpochWarning ==
    [][/\ (last'.op = "start_epoch" /\ (IF EpochArg = None THEN TRUE ELSE EpochArg[1] >= 0))
          => last'.err = ""
       /\ Started
          => LET r == last'.rep
                 N == reporters'[r].epoch
                 missing == ~HasRecord(StatsOf(r), N - 1, last'.args[1])
             IN  /\ last'.ret.warn <=> (missing /\ N - 1 # 0)
                 /\ (N = 1 /\ StatsOf(r) = <<>>) => ~last'.ret.warn
                 /\ (missing /\ (N >= 2 \/ N = 0)) => last'.ret.warn
                 /\ missing => subs'[last'.slot].total_count = 0
      ]_vars

\* start_epoch has warned in epoch 2: the table holds a record of the stream
\* for epoch 0 and none for epoch 1.
C16_Witness ==
    /\ last.op = "start_epoch" /\ last.err = "" /\ last.ret.warn
    /\ reporters[last.rep].epoch = 2
    /\ subs[last.slot].total_count = 0
    /\ HasRecord(StatsOf(last.rep), 0, last.args[1])

C18_LoggingFrame ==
    [][\A i \in DOMAIN subs :
         (last'.op = "logging" /\ last'.slot = i /\ ~subs[i].finished)
         => /\ subs'[i].total_count = subs[i].total_count
            /\ DictKeys(subs'[i].stats) = DictKeys(subs[i].stats)
            /\ \A key2 \in DictKeys(subs[i].stats) :
                  Series(subs'[i], key2) = Series(subs[i], key2)
            /\ ~subs'[i].finished
            /\ subs' = subs /\ heap' = heap /\ reporters' = reporters
      ]_vars

\* logging has reported the last entry of a series of two.
C18_Witness ==
    /\ last.op = "logging" /\ last.err = "" /\ last.args[1] = <<1>>
    /\ ~subs[last.slot].finished
    /\ \E key2 \in DictKeys(subs[last.slot].stats) :
          Len(DictGet(subs[last.slot].stats, key2)) = 2

\* C19 as stated: the range logging names is that of the entries it has
\* aggregated of the first key: rangeEnd is the length of the series and
\* rangeStart the index of the first aggregated entry, so that
\* 1 <= rangeStart <= rangeEnd, with nlatest unset or too large too.
C19_Original ==
    (last.op = "logging" /\ last.err = "" /\ last.ret # <<>>)
    => LET first == subs[last.slot].stats[1].v
           n == IF last.args[1] = None THEN 0 ELSE last.args[1][1]
           aggregated == Len(Latest(first, n))
       IN  /\ last.ret[2] = Len(first)
           /\ last.ret[1] = Len(first) - aggregated + 1
           /\ 1 <= last.ret[1] /\ last.ret[1] <= last.ret[2]

\* logging without nlatest has reported a series of two entries.
C19_Witness ==
    /\ last.op = "logging" /\ last.err = "" /\ last.args[1] = None
    /\ last.ret # <<>>
    /\ Len(subs[last.slot].stats[1].v) = 2

\* The items of a stats mapping that register has been through when it fails:
\* those before the first reserved key or non-scalar value.
RegisterPassed(stats, weight) ==
    LET bad == {j \in 1..Len(stats) :
                  \/ stats[j].k \in _reserved
                  \/ (stats[j].v # None /\ stats[j].v[1].kind = "array")
                  \/ (stats[j].v # None /\ weight # None /\ weight[1].kind = "array")}
    IN  IF bad = {} THEN stats
        ELSE SubSeq(stats, 1, (CHOOSE j \in bad : \A x \in bad : j <= x) - 1)

\* C20 as stated: a register call that fails leaves the stream as it was.
C20_Original ==
    [][\A i \in DOMAIN subs :
         (Registered(i) /\ last'.err # "") => subs'[i] = subs[i]
      ]_vars

\* C20 as amended: a register call that fails on a finished stream leaves it
\* as it was; one that fails on a reserved key or a non-scalar value has
\* counted the call, unless not_increment_count is set, and has appended the
\* values of the keys before the failing one, and nothing else.
C20_RegisterFails ==
    [][\A i \in DOMAIN subs :
         (Registered(i) /\ last'.err # "")
         => IF subs[i].finished THEN subs'[i] = subs[i]
            ELSE LET passed == RegisterPassed(last'.args[1], last'.args[2])
                     given == {passed[j].k : j \in {x \in 1..Len(passed) :
                                                      passed[x].v # None}}
                 IN  /\ subs'[i].total_count =
                          subs[i].total_count + (IF last'.args[3] THEN 0 ELSE 1)
                     /\ ~subs'[i].finished
                     /\ DictKeys(subs'[i].stats) = DictKeys(subs[i].stats) \cup given
                     /\ \A key2 \in DictKeys(subs'[i].stats) :
                           IF key2 \in given
                           THEN /\ Len(Series(subs'[i], key2)) = Len(Series(subs[i], key2)) + 1
                                /\ SubSeq(Series(subs'[i], key2), 1, Len(Series(subs[i], key2)))
                                     = Series(subs[i], key2)
                           ELSE Series(subs'[i], key2) = Series(subs[i], key2)
      ]_vars

\* A register call of a value and a reserved key has failed on an open stream
\* after counting itself and recording the value.
C20_Witness ==
    /\ last.op = "register" /\ last.err = "RuntimeError" /\ ~last.args[3]
    /\ ~subs[last.slot].finished
    /\ Len(last.args[1]) = 2
    /\ last.args[1][1] = Item("acc", <<Scalar(One)>>)
    /\ last.args[1][2].k = "time"
    /\ hist[last.slot].calls = 1
    /\ subs[last.slot].total_count = hist[last.slot].seed + 1
    /\ Series(subs[last.slot], "acc") = <<Average(One)>>

Readers ==
    {"has", "get_value", "get_keys", "get_keys2", "get_all_keys",
     "sort_epochs_and_values"}

\* C22 as stated: a read accessor leaves the Reporter as it was, whether it
\* succeeds or fails: the table gets no new epoch, so that its largest epoch
\* and what state_dict returns are the same after the call as before.
C22_Original ==
    [][last'.op \in Readers
         => LET r == last'.rep
            IN  /\ reporters'[r] = reporters[r]
                /\ DictKeys(StatsOfNext(r)) = DictKeys(StatsOf(r))
                /\ StatsOfNext(r) = StatsOf(r)
                /\ StateDictBody(reporters'[r]) = StateDictBody(reporters[r])
      ]_vars

\* get_value has failed for an epoch after the one the table holds a record of.
C22_Witness ==
    /\ last.op = "get_value" /\ last.err = "KeyError"
    /\ last.args[3] = <<1>>
    /\ HasRecord(StatsOf("orig"), 0, last.args[1])
    /\ DictHas(StatsOf("orig"), 1)

\* C23 as stated: what state_dict has returned is a snapshot. A set_epoch,
\* start_epoch or finish_epoch on the Reporter that exported it leaves the
\* epoch and the table held by the blob as they were when it was taken, and a
\* load_state_dict of it leaves the Reporter with that epoch and that table.
C23_Original ==
    [][/\ (/\ blob # None /\ last'.rep = taken[1].rep
           /\ last'.op \in {"set_epoch", "start_epoch", "finish_epoch"})
          => /\ blob'[1].epoch = taken[1].epoch
             /\ heap'[blob'[1].stats] = taken[1].stats
       /\ (blob # None /\ last'.op = "load_state_dict")
          => /\ reporters'[last'.rep].epoch = taken[1].epoch
             /\ StatsOfNext(last'.rep) = taken[1].stats
      ]_vars

\* The Reporter has loaded a blob it exported before a stream was finished
\* into its table.
C23_Witness ==
    /\ last.op = "load_state_dict" /\ last.err = "" /\ last.rep = "orig"
    /\ taken # None /\ taken[1].rep = "orig"
    /\ \E e \in 0..MaxEpoch, key \in Streams :
          /\ HasRecord(StatsOf("orig"), e, key)
          /\ ~HasRecord(taken[1].stats, e, key)

====
